---- MODULE Spec2Model ----
(***************************************************************************)
(* Model of src/avx512-common-qsort.h: the vectorized two-cursor partition *)
(* (partition_avx512), its unrolled variant (partition_avx512_unrolled),   *)
(* the single-vector step (partition_vec) and avx512_partial_qsort.        *)
(*                                                                         *)
(* Memory is a function from buffer indices to element values.  A vector   *)
(* register is a sequence of numlanes values (lane 1 is the lowest lane).  *)
(* A behaviour is one call of partition_avx512_unrolled<num_unroll> on a   *)
(* buffer, followed by one call of partition_avx512 on a fresh copy of the *)
(* same buffer with the same arguments.                                    *)
(***************************************************************************)
EXTENDS Integers, Sequences, FiniteSets, Bags, TLC

\* ---------------------------------------------------------------- bounds
\* longest range [left, right) handed to a partition call
MaxLen == 8
\* vtype::numlanes ranges over 1..MaxLanes
MaxLanes == 2
\* buffer slots in front of and behind the range (never part of it)
Pad == 1
\* largest arrsize handed to avx512_partial_qsort
MaxSize == 8
\* element values (type_t), totally ordered
Values == {0, 1}
\* unroll factors (template parameter num_unroll)
Unrolls == {1, 2, 4}

VARIABLES
    \* arguments of the call under way, as passed in (never assigned)
    arr0, left0, right0, pivot, smallest0, biggest0, numlanes, num_unroll,
    \* the buffer and the by-value / by-reference arguments as the call moves them
    arr, left, right, smallest, biggest,
    \* locals
    i, ii, pivot_vec, min_vec, max_vec, vec_left, vec_right, curr_vec,
    l_store, r_store,
    \* position in the code, and the returned boundary
    pc, ret,
    \* which call is running (1: partition_avx512_unrolled, 2: partition_avx512),
    \* whether call 1 delegated, and what call 1 returned
    phase, delegated, resU,
    \* history of the call under way: indices accessed, indices loaded into a
    \* register, scalar iterations, vector loads, partition_vec calls, reductions
    touched, loaded, nscalar, nload, nvec, nreduce,
    \* avx512_partial_qsort: arguments, variant, position, calls made so far
    k, arrsize, fp16, qpc, calls

inputs == <<arr0, left0, right0, pivot, smallest0, biggest0, numlanes, num_unroll>>
regs == <<pivot_vec, min_vec, max_vec, vec_left, vec_right, curr_vec>>
stores == <<l_store, r_store>>
harness == <<phase, delegated, resU>>
partial == <<k, arrsize, fp16, qpc, calls>>
vars == <<inputs, arr, left, right, smallest, biggest, i, ii, regs, stores,
          pc, ret, harness, touched, loaded, nscalar, nload, nvec, nreduce,
          partial>>

\* ------------------------------------------------------ scalar comparisons
\* comparison_func with <= for <
comparison_func_le(a, b) == a <= b

comparison_func(a, b) == a < b

\* std::min that always returns its first argument
std_min_keep(a, b) == a

\* std::min(a, b, comp): b if comp(b, a), else a
std_min(a, b) == IF comparison_func(b, a) THEN b ELSE a

\* std::max(a, b, comp): b if comp(a, b), else a
std_max(a, b) == IF comparison_func(a, b) THEN b ELSE a

\* std::swap(arr[x], arr[y])
std_swap(mem, x, y) ==
    [idx \in DOMAIN mem |-> IF idx = x THEN mem[y]
                            ELSE IF idx = y THEN mem[x] ELSE mem[idx]]

\* ------------------------------------------- vector backend (vtype::...)
Lanes(N) == 1..N

\* vtype::loadu(arr + p): lanes 1..N hold arr[p .. p+N-1]
loadu(mem, p, N) == [lane \in Lanes(N) |-> mem[p + lane - 1]]

\* the slots a loadu at p reads
LoadSlots(p, N) == p..(p + N - 1)

\* vtype::set1(x)
set1(x, N) == [lane \in Lanes(N) |-> x]

\* vtype::min / vtype::max, lane by lane
vmin(a, b) == [lane \in DOMAIN a |-> IF b[lane] < a[lane] THEN b[lane] ELSE a[lane]]

vmax(a, b) == [lane \in DOMAIN a |-> IF b[lane] > a[lane] THEN b[lane] ELSE a[lane]]

\* vtype::ge(a, b): lane mask of a >= b
ge(a, b) == [lane \in DOMAIN a |-> a[lane] >= b[lane]]

\* vtype::knot_opmask
knot_opmask(mask) == [lane \in DOMAIN mask |-> ~mask[lane]]

\* _mm_popcnt_u32
popcnt(mask) == Cardinality({lane \in DOMAIN mask : mask[lane]})

\* the lanes of vec selected by mask, packed in ascending lane order
RECURSIVE Compress(_, _, _)
Compress(vec, mask, n) ==
    IF n = 0 THEN <<>>
    ELSE IF mask[n] THEN Append(Compress(vec, mask, n - 1), vec[n])
         ELSE Compress(vec, mask, n - 1)

\* vtype::mask_compressstoreu(arr + p, mask, vec): writes popcount(mask) slots
mask_compressstoreu(mem, p, mask, vec) ==
    LET packed == Compress(vec, mask, Len(vec))
    IN  [idx \in DOMAIN mem |->
            IF idx >= p /\ idx < p + Len(packed) THEN packed[idx - p + 1]
            ELSE mem[idx]]

\* vtype::reducemin / vtype::reducemax
reducemin(vec) == CHOOSE x \in {vec[l] : l \in DOMAIN vec} :
                      \A y \in {vec[l] : l \in DOMAIN vec} : x <= y

reducemax(vec) == CHOOSE x \in {vec[l] : l \in DOMAIN vec} :
                      \A y \in {vec[l] : l \in DOMAIN vec} : x >= y

\* ---------------------------------------------------------- partition_vec
\* partition_vec whose first compress-store is given ge_mask, not its complement
partition_vec_lowmask(mem, lo, hi, cv, pv, sv, bv) ==
    LET ge_mask == ge(cv, pv)
        amount_ge_pivot == popcnt(ge_mask)
        mem1 == mask_compressstoreu(mem, lo, ge_mask, cv)
        mem2 == mask_compressstoreu(mem1, hi - amount_ge_pivot, ge_mask, cv)
    IN  [arr |-> mem2,
         amount_ge_pivot |-> amount_ge_pivot,
         smallest_vec |-> vmin(cv, sv),
         biggest_vec |-> vmax(cv, bv)]

\* partition_vec(arr, left, right, curr_vec, pivot_vec, &smallest_vec, &biggest_vec)
partition_vec(mem, lo, hi, cv, pv, sv, bv) ==
    LET ge_mask == ge(cv, pv)
        amount_ge_pivot == popcnt(ge_mask)
        mem1 == mask_compressstoreu(mem, lo, knot_opmask(ge_mask), cv)
        mem2 == mask_compressstoreu(mem1, hi - amount_ge_pivot, ge_mask, cv)
    IN  [arr |-> mem2,
         amount_ge_pivot |-> amount_ge_pivot,
         smallest_vec |-> vmin(cv, sv),
         biggest_vec |-> vmax(cv, bv)]

\* the slots the two compress-stores of partition_vec(arr, lo, hi, ..) write
\* when amount lanes are >= pivot
LowSlots(lo, amount, N) == lo..(lo + (N - amount) - 1)

HighSlots(hi, amount) == (hi - amount)..(hi - 1)

\* ------------------------------------------------ scalar remainder step
\* the remainder step with arr[right--] for arr[--right]
scalar_step_postdec(mem, l, r, pv, sm, bg) ==
    IF ~comparison_func(mem[l], pv)
    THEN [arr |-> std_swap(mem, l, r), left |-> l, right |-> r - 1,
          smallest |-> std_min(sm, mem[l]), biggest |-> std_max(bg, mem[l]),
          slots |-> {l, r}]
    ELSE [arr |-> mem, left |-> l + 1, right |-> r,
          smallest |-> std_min(sm, mem[l]), biggest |-> std_max(bg, mem[l]),
          slots |-> {l}]

\* one iteration of the remainder loop (the same text in both routines)
scalar_step(mem, l, r, pv, sm, bg) ==
    IF ~comparison_func(mem[l], pv)
    THEN [arr |-> std_swap(mem, l, r - 1), left |-> l, right |-> r - 1,
          smallest |-> std_min(sm, mem[l]), biggest |-> std_max(bg, mem[l]),
          slots |-> {l, r - 1}]
    ELSE [arr |-> mem, left |-> l + 1, right |-> r,
          smallest |-> std_min(sm, mem[l]), biggest |-> std_max(bg, mem[l]),
          slots |-> {l}]

\* the side choice with the comparison turned round
load_from_right_flipped(ls, rs, l, r, N) == (rs + N) - r > l - ls

\* the side the main loop loads from next
load_from_right(ls, rs, l, r, N) == (rs + N) - r < l - ls

\* ======================================================= partition_avx512
\* the remainder count with / for %
p_remainder_div(l, r, N) == (r - l) \div N

\* (right - left) % vtype::numlanes
p_remainder(l, r, N) == (r - l) % N

\* entry: the remainder count of the for loop
P_Enter ==
    /\ pc = "p_entry"
    /\ i' = p_remainder(left, right, numlanes)
    /\ pc' = "p_scalar"
    /\ UNCHANGED <<inputs, arr, left, right, smallest, biggest, ii, regs, stores,
                   ret, harness, touched, loaded, nscalar, nload, nvec, nreduce,
                   partial>>

P_ScalarLoop ==
    /\ pc = "p_scalar" /\ i > 0
    /\ LET s == scalar_step(arr, left, right, pivot, smallest, biggest)
       IN  /\ arr' = s.arr /\ left' = s.left /\ right' = s.right
           /\ smallest' = s.smallest /\ biggest' = s.biggest
           /\ touched' = touched \cup s.slots
    /\ i' = i - 1
    /\ nscalar' = nscalar + 1
    /\ UNCHANGED <<inputs, ii, regs, stores, pc, ret, harness, loaded,
                   nload, nvec, nreduce, partial>>

\* if (left == right) return left;
P_ReturnEmpty ==
    /\ pc = "p_scalar" /\ i = 0 /\ left = right
    /\ ret' = left
    /\ pc' = "done"
    /\ UNCHANGED <<inputs, arr, left, right, smallest, biggest, i, ii, regs,
                   stores, harness, touched, loaded, nscalar, nload, nvec,
                   nreduce, partial>>

\* set1 of pivot/min/max, then the load of the one remaining vector
P_LoadSingle ==
    /\ pc = "p_scalar" /\ i = 0 /\ left # right
    /\ right - left = numlanes
    /\ pivot_vec' = set1(pivot, numlanes)
    /\ min_vec' = set1(smallest, numlanes)
    /\ max_vec' = set1(biggest, numlanes)
    /\ curr_vec' = loadu(arr, left, numlanes)
    /\ touched' = touched \cup LoadSlots(left, numlanes)
    /\ loaded' = loaded \cup LoadSlots(left, numlanes)
    /\ nload' = nload + 1
    /\ pc' = "p_single"
    /\ UNCHANGED <<inputs, arr, left, right, smallest, biggest, i, ii, vec_left,
                   vec_right, stores, ret, harness, nscalar, nvec, nreduce,
                   partial>>

\* partition_vec on the single vector, reduce, return
P_Single ==
    /\ pc = "p_single"
    /\ LET v == partition_vec(arr, left, left + numlanes, curr_vec, pivot_vec,
                              min_vec, max_vec)
       IN  /\ arr' = v.arr
           /\ min_vec' = v.smallest_vec /\ max_vec' = v.biggest_vec
           /\ smallest' = reducemin(v.smallest_vec)
           /\ biggest' = reducemax(v.biggest_vec)
           /\ ret' = left + (numlanes - v.amount_ge_pivot)
           /\ touched' = touched \cup LowSlots(left, v.amount_ge_pivot, numlanes)
                                 \cup HighSlots(left + numlanes, v.amount_ge_pivot)
    /\ nvec' = nvec + 1
    /\ nreduce' = nreduce + 1
    /\ pc' = "done"
    /\ UNCHANGED <<inputs, left, right, i, ii, pivot_vec, vec_left, vec_right,
                   curr_vec, stores, harness, loaded, nscalar, nload, partial>>

\* set1 of pivot/min/max, the two edge loads, the store and load cursors
P_LoadEdges ==
    /\ pc = "p_scalar" /\ i = 0 /\ left # right
    /\ right - left # numlanes
    /\ pivot_vec' = set1(pivot, numlanes)
    /\ min_vec' = set1(smallest, numlanes)
    /\ max_vec' = set1(biggest, numlanes)
    /\ vec_left' = loadu(arr, left, numlanes)
    /\ vec_right' = loadu(arr, right - numlanes, numlanes)
    /\ r_store' = right - numlanes
    /\ l_store' = left
    /\ left' = left + numlanes
    /\ right' = right - numlanes
    /\ touched' = touched \cup LoadSlots(left, numlanes)
                          \cup LoadSlots(right - numlanes, numlanes)
    /\ loaded' = loaded \cup LoadSlots(left, numlanes)
                        \cup LoadSlots(right - numlanes, numlanes)
    /\ nload' = nload + 2
    /\ pc' = IF right' - left' # 0 THEN "p_loop" ELSE "p_vec_left"
    /\ UNCHANGED <<inputs, arr, smallest, biggest, i, ii, curr_vec, ret, harness,
                   nscalar, nvec, nreduce, partial>>

P_LoadRight ==
    /\ pc = "p_loop"
    /\ load_from_right(l_store, r_store, left, right, numlanes)
    /\ right' = right - numlanes
    /\ curr_vec' = loadu(arr, right', numlanes)
    /\ touched' = touched \cup LoadSlots(right', numlanes)
    /\ loaded' = loaded \cup LoadSlots(right', numlanes)
    /\ nload' = nload + 1
    /\ pc' = "p_loop_vec"
    /\ UNCHANGED <<inputs, arr, left, smallest, biggest, i, ii, pivot_vec, min_vec,
                   max_vec, vec_left, vec_right, stores, ret, harness, nscalar,
                   nvec, nreduce, partial>>

P_LoadLeft ==
    /\ pc = "p_loop"
    /\ ~load_from_right(l_store, r_store, left, right, numlanes)
    /\ curr_vec' = loadu(arr, left, numlanes)
    /\ left' = left + numlanes
    /\ touched' = touched \cup LoadSlots(left, numlanes)
    /\ loaded' = loaded \cup LoadSlots(left, numlanes)
    /\ nload' = nload + 1
    /\ pc' = "p_loop_vec"
    /\ UNCHANGED <<inputs, arr, right, smallest, biggest, i, ii, pivot_vec, min_vec,
                   max_vec, vec_left, vec_right, stores, ret, harness, nscalar,
                   nvec, nreduce, partial>>

\* partition_vec on curr_vec, the store cursors, then the while test
P_LoopVec ==
    /\ pc = "p_loop_vec"
    /\ LET v == partition_vec(arr, l_store, r_store + numlanes, curr_vec,
                              pivot_vec, min_vec, max_vec)
       IN  /\ arr' = v.arr
           /\ min_vec' = v.smallest_vec /\ max_vec' = v.biggest_vec
           /\ r_store' = r_store - v.amount_ge_pivot
           /\ l_store' = l_store + (numlanes - v.amount_ge_pivot)
           /\ touched' = touched \cup LowSlots(l_store, v.amount_ge_pivot, numlanes)
                                 \cup HighSlots(r_store + numlanes, v.amount_ge_pivot)
    /\ nvec' = nvec + 1
    /\ pc' = IF right - left # 0 THEN "p_loop" ELSE "p_vec_left"
    /\ UNCHANGED <<inputs, left, right, smallest, biggest, i, ii, pivot_vec,
                   vec_left, vec_right, curr_vec, ret, harness, loaded, nscalar,
                   nload, nreduce, partial>>

\* partition_vec on vec_left
P_VecLeft ==
    /\ pc = "p_vec_left"
    /\ LET v == partition_vec(arr, l_store, r_store + numlanes, vec_left,
                              pivot_vec, min_vec, max_vec)
       IN  /\ arr' = v.arr
           /\ min_vec' = v.smallest_vec /\ max_vec' = v.biggest_vec
           /\ l_store' = l_store + (numlanes - v.amount_ge_pivot)
           /\ touched' = touched \cup LowSlots(l_store, v.amount_ge_pivot, numlanes)
                                 \cup HighSlots(r_store + numlanes, v.amount_ge_pivot)
    /\ nvec' = nvec + 1
    /\ pc' = "p_vec_right"
    /\ UNCHANGED <<inputs, left, right, smallest, biggest, i, ii, pivot_vec,
                   vec_left, vec_right, curr_vec, r_store, ret, harness, loaded,
                   nscalar, nload, nreduce, partial>>

\* partition_vec on vec_right, reduce, return l_store
P_VecRight ==
    /\ pc = "p_vec_right"
    /\ LET v == partition_vec(arr, l_store, l_store + numlanes, vec_right,
                              pivot_vec, min_vec, max_vec)
       IN  /\ arr' = v.arr
           /\ min_vec' = v.smallest_vec /\ max_vec' = v.biggest_vec
           /\ l_store' = l_store + (numlanes - v.amount_ge_pivot)
           /\ smallest' = reducemin(v.smallest_vec)
           /\ biggest' = reducemax(v.biggest_vec)
           /\ touched' = touched \cup LowSlots(l_store, v.amount_ge_pivot, numlanes)
                                 \cup HighSlots(l_store + numlanes, v.amount_ge_pivot)
    /\ ret' = l_store'
    /\ nvec' = nvec + 1
    /\ nreduce' = nreduce + 1
    /\ pc' = "done"
    /\ UNCHANGED <<inputs, left, right, i, ii, pivot_vec, vec_left, vec_right,
                   curr_vec, r_store, harness, loaded, nscalar, nload, partial>>

\* ============================================== partition_avx512_unrolled
\* if (right - left <= 2 * num_unroll * numlanes) return partition_avx512(...)
U_Delegate ==
    /\ pc = "u_entry"
    /\ right - left <= 2 * num_unroll * numlanes
    /\ delegated' = TRUE
    /\ pc' = "p_entry"
    /\ UNCHANGED <<inputs, arr, left, right, smallest, biggest, i, ii, regs, stores,
                   ret, phase, resU, touched, loaded, nscalar, nload, nvec,
                   nreduce, partial>>

\* the remainder count taken modulo numlanes alone
u_remainder_lanes(l, r, K, N) == (r - l) % N

\* (right - left) % (num_unroll * vtype::numlanes)
u_remainder(l, r, K, N) == (r - l) % (K * N)

\* the remainder count of the unrolled routine's for loop
U_Enter ==
    /\ pc = "u_entry"
    /\ ~(right - left <= 2 * num_unroll * numlanes)
    /\ i' = u_remainder(left, right, num_unroll, numlanes)
    /\ pc' = "u_scalar"
    /\ UNCHANGED <<inputs, arr, left, right, smallest, biggest, ii, regs, stores,
                   ret, harness, touched, loaded, nscalar, nload, nvec, nreduce,
                   partial>>

U_ScalarLoop ==
    /\ pc = "u_scalar" /\ i > 0
    /\ LET s == scalar_step(arr, left, right, pivot, smallest, biggest)
       IN  /\ arr' = s.arr /\ left' = s.left /\ right' = s.right
           /\ smallest' = s.smallest /\ biggest' = s.biggest
           /\ touched' = touched \cup s.slots
    /\ i' = i - 1
    /\ nscalar' = nscalar + 1
    /\ UNCHANGED <<inputs, ii, regs, stores, pc, ret, harness, loaded,
                   nload, nvec, nreduce, partial>>

\* the vectors of an edge batch: vec_left[ii] and vec_right[ii], ii = x - 1
u_vec_left(mem, l, K, N) == [x \in 1..K |-> loadu(mem, l + N * (x - 1), N)]

u_vec_right(mem, r, K, N) == [x \in 1..K |-> loadu(mem, r - N * (K - (x - 1)), N)]

\* curr_vec[ii] = loadu(arr + p + ii * numlanes), ii = x - 1
u_curr_vec(mem, p, K, N) == [x \in 1..K |-> loadu(mem, p + (x - 1) * N, N)]

\* after the remainder loop: the early return, or set1 of pivot/min/max, the
\* two edge batches, the store and load cursors
U_LoadEdges ==
    /\ pc = "u_scalar" /\ i = 0
    /\ IF left = right
       THEN /\ ret' = left
            /\ pc' = "done"
            /\ UNCHANGED <<left, right, regs, stores, touched, loaded, nload>>
       ELSE /\ pivot_vec' = set1(pivot, numlanes)
            /\ min_vec' = set1(smallest, numlanes)
            /\ max_vec' = set1(biggest, numlanes)
            /\ vec_left' = u_vec_left(arr, left, num_unroll, numlanes)
            /\ vec_right' = u_vec_right(arr, right, num_unroll, numlanes)
            /\ r_store' = right - numlanes
            /\ l_store' = left
            /\ left' = left + num_unroll * numlanes
            /\ right' = right - num_unroll * numlanes
            /\ touched' = touched \cup LoadSlots(left, num_unroll * numlanes)
                                  \cup LoadSlots(right', num_unroll * numlanes)
            /\ loaded' = loaded \cup LoadSlots(left, num_unroll * numlanes)
                                \cup LoadSlots(right', num_unroll * numlanes)
            /\ nload' = nload + 2 * num_unroll
            /\ pc' = IF right' - left' # 0 THEN "u_loop" ELSE "u_vec_left"
            /\ UNCHANGED <<curr_vec, ret>>
    /\ UNCHANGED <<inputs, arr, smallest, biggest, i, ii, harness, nscalar, nvec,
                   nreduce, partial>>

U_LoadRight ==
    /\ pc = "u_loop"
    /\ load_from_right(l_store, r_store, left, right, numlanes)
    /\ right' = right - num_unroll * numlanes
    /\ curr_vec' = u_curr_vec(arr, right', num_unroll, numlanes)
    /\ touched' = touched \cup LoadSlots(right', num_unroll * numlanes)
    /\ loaded' = loaded \cup LoadSlots(right', num_unroll * numlanes)
    /\ nload' = nload + num_unroll
    /\ pc' = "u_loop_vec"
    /\ UNCHANGED <<inputs, arr, left, smallest, biggest, i, ii, pivot_vec, min_vec,
                   max_vec, vec_left, vec_right, stores, ret, harness, nscalar,
                   nvec, nreduce, partial>>

U_LoadLeft ==
    /\ pc = "u_loop"
    /\ ~load_from_right(l_store, r_store, left, right, numlanes)
    /\ curr_vec' = u_curr_vec(arr, left, num_unroll, numlanes)
    /\ left' = left + num_unroll * numlanes
    /\ touched' = touched \cup LoadSlots(left, num_unroll * numlanes)
    /\ loaded' = loaded \cup LoadSlots(left, num_unroll * numlanes)
    /\ nload' = nload + num_unroll
    /\ pc' = "u_loop_vec"
    /\ UNCHANGED <<inputs, arr, right, smallest, biggest, i, ii, pivot_vec, min_vec,
                   max_vec, vec_left, vec_right, stores, ret, harness, nscalar,
                   nvec, nreduce, partial>>

\* the cursor update without the r_store line
u_advance_keep_r(ls, rs, amount, N) == [l_store |-> ls + (N - amount), r_store |-> rs]

\* l_store += numlanes - amount_ge_pivot; r_store -= amount_ge_pivot
u_advance(ls, rs, amount, N) == [l_store |-> ls + (N - amount), r_store |-> rs - amount]

\* one partition_vec of an unrolled loop on vector cv, and the store cursors
U_VecStep(cv) ==
    LET v == partition_vec(arr, l_store, r_store + numlanes, cv, pivot_vec,
                           min_vec, max_vec)
        a == u_advance(l_store, r_store, v.amount_ge_pivot, numlanes)
    IN  /\ arr' = v.arr
        /\ min_vec' = v.smallest_vec /\ max_vec' = v.biggest_vec
        /\ l_store' = a.l_store
        /\ r_store' = a.r_store
        /\ touched' = touched \cup LowSlots(l_store, v.amount_ge_pivot, numlanes)
                              \cup HighSlots(r_store + numlanes, v.amount_ge_pivot)
        /\ nvec' = nvec + 1

\* iteration ii of the loop over curr_vec; after the last, the while test
U_LoopVec ==
    /\ pc = "u_loop_vec"
    /\ U_VecStep(curr_vec[ii + 1])
    /\ ii' = IF ii + 1 < num_unroll THEN ii + 1 ELSE 0
    /\ pc' = IF ii + 1 < num_unroll THEN "u_loop_vec"
             ELSE IF right - left # 0 THEN "u_loop" ELSE "u_vec_left"
    /\ UNCHANGED <<inputs, left, right, smallest, biggest, i, pivot_vec, vec_left,
                   vec_right, curr_vec, ret, harness, loaded, nscalar, nload,
                   nreduce, partial>>

\* iteration ii of the loop over vec_left
U_VecLeft ==
    /\ pc = "u_vec_left"
    /\ U_VecStep(vec_left[ii + 1])
    /\ ii' = IF ii + 1 < num_unroll THEN ii + 1 ELSE 0
    /\ pc' = IF ii + 1 < num_unroll THEN "u_vec_left" ELSE "u_vec_right"
    /\ UNCHANGED <<inputs, left, right, smallest, biggest, i, pivot_vec, vec_left,
                   vec_right, curr_vec, ret, harness, loaded, nscalar, nload,
                   nreduce, partial>>

\* iteration ii of the loop over vec_right
U_VecRight ==
    /\ pc = "u_vec_right"
    /\ U_VecStep(vec_right[ii + 1])
    /\ ii' = IF ii + 1 < num_unroll THEN ii + 1 ELSE 0
    /\ pc' = IF ii + 1 < num_unroll THEN "u_vec_right" ELSE "u_return"
    /\ UNCHANGED <<inputs, left, right, smallest, biggest, i, pivot_vec, vec_left,
                   vec_right, curr_vec, ret, harness, loaded, nscalar, nload,
                   nreduce, partial>>

\* the return without the reducemax line
U_Return_NoMax ==
    /\ pc = "u_return"
    /\ smallest' = reducemin(min_vec)
    /\ ret' = l_store
    /\ nreduce' = nreduce + 1
    /\ pc' = "done"
    /\ UNCHANGED <<inputs, arr, left, right, biggest, i, ii, regs, stores, harness,
                   touched, loaded, nscalar, nload, nvec, partial>>

\* reduce, return l_store
U_Return ==
    /\ pc = "u_return"
    /\ smallest' = reducemin(min_vec)
    /\ biggest' = reducemax(max_vec)
    /\ ret' = l_store
    /\ nreduce' = nreduce + 1
    /\ pc' = "done"
    /\ UNCHANGED <<inputs, arr, left, right, i, ii, regs, stores, harness, touched,
                   loaded, nscalar, nload, nvec, partial>>

\* ============================================================ the two calls
\* the locals of a call before it has assigned them
FreshCall ==
    /\ i = 0 /\ ii = 0
    /\ pivot_vec = <<>> /\ min_vec = <<>> /\ max_vec = <<>>
    /\ vec_left = <<>> /\ vec_right = <<>> /\ curr_vec = <<>>
    /\ l_store = 0 /\ r_store = 0
    /\ ret = 0
    /\ touched = {} /\ loaded = {}
    /\ nscalar = 0 /\ nload = 0 /\ nvec = 0 /\ nreduce = 0

\* the buffer: Pad slots, the range [left0, right0), Pad slots
Buffer(body, n) ==
    [idx \in 0..(n + 2 * Pad - 1) |->
        IF idx >= Pad /\ idx < Pad + n THEN body[idx - Pad + 1] ELSE 0]

\* partition_avx512_unrolled<vtype, num_unroll>(arr, left, right, pivot,
\*                                              &smallest, &biggest)
Init ==
    /\ numlanes \in 1..MaxLanes
    /\ num_unroll \in Unrolls
    /\ \E n \in 0..MaxLen :
          /\ left0 = Pad
          /\ right0 = Pad + n
          /\ \E body \in [1..n -> Values] : arr0 = Buffer(body, n)
    /\ pivot \in Values
    /\ smallest0 \in Values
    /\ biggest0 \in Values
    /\ arr = arr0 /\ left = left0 /\ right = right0
    /\ smallest = smallest0 /\ biggest = biggest0
    /\ FreshCall
    /\ pc = "u_entry"
    /\ phase = 1 /\ delegated = FALSE
    /\ resU = [ret |-> 0, smallest |-> smallest0, biggest |-> biggest0,
               arr |-> arr0, delegated |-> FALSE]
    /\ k = 0 /\ arrsize = 0 /\ fp16 = FALSE /\ qpc = "idle" /\ calls = <<>>

\* partition_avx512<vtype>(arr, left, right, pivot, &smallest, &biggest) with
\* the arguments of the first call, on a fresh copy of the buffer
CallReference ==
    /\ phase = 1 /\ pc = "done"
    /\ resU' = [ret |-> ret, smallest |-> smallest, biggest |-> biggest,
                arr |-> arr, delegated |-> delegated]
    /\ phase' = 2
    /\ delegated' = FALSE
    /\ arr' = arr0 /\ left' = left0 /\ right' = right0
    /\ smallest' = smallest0 /\ biggest' = biggest0
    /\ i' = 0 /\ ii' = 0
    /\ pivot_vec' = <<>> /\ min_vec' = <<>> /\ max_vec' = <<>>
    /\ vec_left' = <<>> /\ vec_right' = <<>> /\ curr_vec' = <<>>
    /\ l_store' = 0 /\ r_store' = 0
    /\ ret' = 0
    /\ touched' = {} /\ loaded' = {}
    /\ nscalar' = 0 /\ nload' = 0 /\ nvec' = 0 /\ nreduce' = 0
    /\ pc' = "p_entry"
    /\ UNCHANGED <<inputs, partial>>

Next ==
    \/ P_Enter \/ P_ScalarLoop \/ P_ReturnEmpty \/ P_LoadSingle \/ P_Single
    \/ P_LoadEdges \/ P_LoadRight \/ P_LoadLeft \/ P_LoopVec \/ P_VecLeft
    \/ P_VecRight
    \/ U_Delegate \/ U_Enter \/ U_ScalarLoop \/ U_LoadEdges \/ U_LoadRight
    \/ U_LoadLeft \/ U_LoopVec \/ U_VecLeft \/ U_VecRight \/ U_Return
    \/ CallReference

Spec == Init /\ [][Next]_vars

\* =================================================== avx512_partial_qsort
\* the variables of the partition calls, untouched by avx512_partial_qsort
partitionVars ==
    <<inputs, arr, left, right, smallest, biggest, i, ii, regs, stores, pc, ret,
      harness, touched, loaded, nscalar, nload, nvec, nreduce>>

\* second argument of the avx512_qselect call
qselect_k(kk) == kk - 1

\* the sort call given k elements
qsort_arrsize_k(kk) == kk

\* second argument (arrsize) of the avx512_qsort call
qsort_arrsize(kk) == kk - 1

\* avx512_qselect<T>(arr, k - 1, arrsize) / avx512_qselect_fp16(arr, k - 1, arrsize)
Q_Select ==
    /\ qpc = "select"
    /\ calls' = Append(calls,
                   [fn |-> IF fp16 THEN "avx512_qselect_fp16" ELSE "avx512_qselect",
                    k |-> qselect_k(k), arrsize |-> arrsize])
    /\ qpc' = "sort"
    /\ UNCHANGED <<partitionVars, k, arrsize, fp16>>

\* avx512_qsort<T>(arr, k - 1) / avx512_qsort_fp16(arr, k - 1)
Q_Sort ==
    /\ qpc = "sort"
    /\ calls' = Append(calls,
                   [fn |-> IF fp16 THEN "avx512_qsort_fp16" ELSE "avx512_qsort",
                    arrsize |-> qsort_arrsize(k)])
    /\ qpc' = "returned"
    /\ UNCHANGED <<partitionVars, k, arrsize, fp16>>

\* avx512_partial_qsort<T>(arr, k, arrsize) or avx512_partial_qsort_fp16(..),
\* 1 <= k <= arrsize; no partition call is under way
InitPartial ==
    /\ arrsize \in 1..MaxSize
    /\ k \in 1..arrsize
    /\ fp16 \in BOOLEAN
    /\ qpc = "select"
    /\ calls = <<>>
    /\ numlanes = 1 /\ num_unroll = 1
    /\ left0 = 0 /\ right0 = 0 /\ arr0 = <<>>
    /\ pivot = 0 /\ smallest0 = 0 /\ biggest0 = 0
    /\ arr = arr0 /\ left = left0 /\ right = right0
    /\ smallest = smallest0 /\ biggest = biggest0
    /\ FreshCall
    /\ pc = "idle"
    /\ phase = 0 /\ delegated = FALSE
    /\ resU = [ret |-> 0, smallest |-> smallest0, biggest |-> biggest0,
               arr |-> arr0, delegated |-> FALSE]

NextPartial == Q_Select \/ Q_Sort

SpecPartial == InitPartial /\ [][NextPartial]_vars

\* ============================================================ properties
\* the range handed to the call
Range == left0..(right0 - 1)

\* the multiset of the values mem holds in the slots S
BagOfSlots(mem, S) ==
    [v \in {mem[x] : x \in S} |-> Cardinality({x \in S : mem[x] = v})]

MinOfSet(S) == CHOOSE x \in S : \A y \in S : x <= y

MaxOfSet(S) == CHOOSE x \in S : \A y \in S : x >= y

\* a partition call has returned
Returned == pc = "done"

\* a partition_vec call is the next step
AtVecStep ==
    pc \in {"p_single", "p_loop_vec", "p_vec_left", "p_vec_right",
            "u_loop_vec", "u_vec_left", "u_vec_right"}

\* a partition_vec call of a main loop is the next step
AtLoopVecStep == pc \in {"p_loop_vec", "u_loop_vec"}

\* the vector the next partition_vec call is given
NextVec ==
    CASE pc \in {"p_single", "p_loop_vec"} -> curr_vec
      [] pc = "p_vec_left" -> vec_left
      [] pc = "p_vec_right" -> vec_right
      [] pc = "u_loop_vec" -> curr_vec[ii + 1]
      [] pc = "u_vec_left" -> vec_left[ii + 1]
      [] pc = "u_vec_right" -> vec_right[ii + 1]

\* the destination window [low_dest, high_dest_end) of the next partition_vec call
LowDest == IF pc = "p_single" THEN left ELSE l_store

HighDestEnd ==
    CASE pc = "p_single" -> left + numlanes
      [] pc = "p_vec_right" -> l_store + numlanes
      [] OTHER -> r_store + numlanes

\* count_ge of the next partition_vec call, and the slots its two stores write
NextCountGe == popcnt(ge(NextVec, pivot_vec))

NextLowSlots == LowSlots(LowDest, NextCountGe, numlanes)

NextHighSlots == HighSlots(HighDestEnd, NextCountGe)

\* vectors loaded into a register and not yet stored by partition_vec
Pending == nload - nvec

\* elements of the range that neither the remainder loop nor a load has consumed
Unloaded == Cardinality(Range \ loaded) - nscalar

\* ---------------------------------------------------------------- C1
\* C1: when a partition call returns boundary ret, left0 <= ret <= right0,
\* every element of [left0, ret) is < pivot and every element of [ret, right0)
\* is >= pivot; if every element is >= pivot the boundary is left0.
C1_Split ==
    Returned =>
        /\ left0 <= ret /\ ret <= right0
        /\ \A idx \in left0..(ret - 1) : arr[idx] < pivot
        /\ \A idx \in ret..(right0 - 1) : arr[idx] >= pivot
        /\ (\A idx \in Range : arr0[idx] >= pivot) => ret = left0

\* the unrolled routine, not delegating, returned a boundary strictly inside the
\* range with an element equal to the pivot on the high side
C1_Witness ==
    /\ Returned /\ phase = 1 /\ ~delegated
    /\ left0 < ret /\ ret < right0
    /\ \E idx \in ret..(right0 - 1) : arr[idx] = pivot
    /\ nscalar > 0

\* ---------------------------------------------------------------- C2
\* C2: when a partition call returns, the multiset of elements in
\* [left0, right0) equals the multiset there before the call.
C2_Conservation ==
    Returned => BagOfSlots(arr, Range) = BagOfSlots(arr0, Range)

\* a call that ran the remainder loop, the main loop and the edge steps
\* returned with the buffer rearranged
C2_Witness ==
    /\ Returned /\ nscalar > 0 /\ nvec >= 3 /\ arr # arr0
    /\ \E x \in Range : arr0[x] < pivot
    /\ \E x \in Range : arr0[x] >= pivot

\* ---------------------------------------------------------------- C4
\* C4: every scalar access, vector load and compress-store of a partition call
\* touches only slots of [left0, right0), and the slots outside the range hold
\* what they held before the call.
C4_Frame ==
    /\ touched \subseteq Range
    /\ \A idx \in DOMAIN arr \ Range : arr[idx] = arr0[idx]

\* a call that ran the remainder loop and vector steps returned having
\* accessed every slot of the range
C4_Witness ==
    /\ Returned /\ nscalar > 0 /\ nvec >= 3
    /\ touched = Range

\* ---------------------------------------------------------------- C6
\* C6: on a range shorter than numlanes a partition call (the unrolled one by
\* delegating) does no vector load, no partition_vec step and no reduction and
\* returns after one remainder iteration per element; on an empty range it
\* returns left0 and leaves the buffer, *smallest and *biggest as passed in.
C6_SubVector ==
    (pc # "idle" /\ right0 - left0 < numlanes) =>
        /\ nload = 0 /\ nvec = 0 /\ nreduce = 0
        /\ pc \in {"u_entry", "p_entry", "p_scalar", "done"}
        /\ (phase = 1 /\ Returned) => delegated
        /\ Returned => nscalar = right0 - left0
        /\ (Returned /\ right0 = left0) =>
              /\ ret = left0 /\ arr = arr0
              /\ smallest = smallest0 /\ biggest = biggest0

\* a call on a one-element range with two or more lanes returned
C6_Witness ==
    /\ Returned /\ right0 - left0 = 1 /\ numlanes >= 2 /\ nscalar = 1

\* ---------------------------------------------------------------- C3
\* on return *smallest / *biggest are the minimum / maximum of the value passed
\* in and all elements of the range, and every element was consumed once, by a
\* remainder iteration or as a lane of a partition_vec step
C3_AtReturn ==
    Returned =>
        /\ smallest = MinOfSet({smallest0} \cup {arr0[x] : x \in Range})
        /\ biggest = MaxOfSet({biggest0} \cup {arr0[x] : x \in Range})
        /\ nscalar + numlanes * nvec = right0 - left0

\* a step of a call never raises *smallest and never lowers *biggest
C3_Monotone == (phase' = phase) => (smallest' <= smallest /\ biggest' >= biggest)

\* C3: when a partition call returns, *smallest is the minimum of the value
\* passed in and all elements of the range, *biggest the maximum likewise;
\* every element was consumed once, by a remainder iteration or as a lane of a
\* partition_vec step; and within a call *smallest never increases and
\* *biggest never decreases.
C3_MinMax == []C3_AtReturn /\ [][C3_Monotone]_vars

\* a call returned with *smallest lowered by the remainder loop's element and
\* *biggest raised by a vector step's
C3_Witness ==
    /\ Returned /\ nscalar > 0 /\ nvec >= 3
    /\ smallest < smallest0 /\ biggest > biggest0

\* ---------------------------------------------------------------- C5
\* C5: partition_avx512_unrolled<num_unroll> and partition_avx512, given the
\* same arguments, return the same boundary and the same *smallest/*biggest
\* and leave the same multiset below the boundary and the same multiset at or
\* above it; the unrolled routine delegates exactly when right - left <=
\* 2 * num_unroll * numlanes, and then the two buffers are equal slot by slot.
C5_UnrollEquivalence ==
    (phase = 2 /\ Returned) =>
        /\ resU.ret = ret
        /\ resU.smallest = smallest /\ resU.biggest = biggest
        /\ BagOfSlots(resU.arr, left0..(ret - 1)) = BagOfSlots(arr, left0..(ret - 1))
        /\ BagOfSlots(resU.arr, ret..(right0 - 1)) = BagOfSlots(arr, ret..(right0 - 1))
        /\ resU.delegated <=> (right0 - left0 <= 2 * num_unroll * numlanes)
        /\ resU.delegated => resU.arr = arr

\* both calls returned, the unrolled one with two vectors per batch and without
\* delegating, and the two buffers differ in the order inside a side
C5_Witness ==
    /\ phase = 2 /\ Returned
    /\ ~resU.delegated /\ num_unroll = 2
    /\ resU.arr # arr
    /\ resU.ret = ret

\* ---------------------------------------------------------------- C7
\* the calls avx512_partial_qsort made, once it has returned: a quickselect
\* over the whole array for index k - 1, then a sort of the first n elements
PartialCalls(n) ==
    qpc = "returned" =>
        /\ Len(calls) = 2
        /\ calls[1] = [fn |-> IF fp16 THEN "avx512_qselect_fp16" ELSE "avx512_qselect",
                       k |-> k - 1, arrsize |-> arrsize]
        /\ calls[2] = [fn |-> IF fp16 THEN "avx512_qsort_fp16" ELSE "avx512_qsort",
                       arrsize |-> n]

\* C7 as stated: avx512_partial_qsort(arr, k, arrsize) makes exactly two calls,
\* a quickselect over the whole array for the k-th order statistic, then a
\* sort that is given exactly the first k elements.
C7_AsStated == PartialCalls(k)

\* C7 amended: avx512_partial_qsort(arr, k, arrsize) makes exactly two calls,
\* a quickselect over the whole array for the k-th order statistic (index
\* k - 1), then a sort that is given exactly the first k - 1 elements.
C7_PartialSort == PartialCalls(k - 1)

\* avx512_partial_qsort returned for a k strictly between 1 and arrsize
C7_Witness == qpc = "returned" /\ 1 < k /\ k < arrsize /\ Len(calls) = 2

\* ---------------------------------------------------------------- C8
\* C8: at every partition_vec step of a main loop the slots left of the left
\* load cursor and right of the right load cursor each have room for a whole
\* vector (so the low write ends at or before the left load cursor and the
\* high write starts at or after the right one, whatever count_ge is); the
\* cursors stay ordered l_store <= left <= right <= r_store + numlanes in the
\* loop; and no partition_vec step writes a slot that was not loaded before.
C8_NoOverrun ==
    /\ AtLoopVecStep =>
          /\ l_store + numlanes <= left
          /\ right <= r_store
    /\ pc \in {"p_loop", "u_loop", "p_loop_vec", "u_loop_vec"} =>
          /\ l_store <= left /\ left <= right /\ right <= r_store + numlanes
    /\ AtVecStep => (NextLowSlots \cup NextHighSlots) \subseteq loaded

\* inside a batch of the unrolled main loop, with no slack on the right: the
\* high write of a vector with every lane >= pivot starts exactly at the right
\* load cursor
C8_Witness ==
    /\ pc = "u_loop_vec" /\ num_unroll = 2 /\ ii = 1
    /\ r_store = right
    /\ NextCountGe = numlanes

\* ---------------------------------------------------------------- C9
\* the two writes of the next partition_vec step do not overlap and cover
\* exactly numlanes slots
TilingWrites ==
    /\ NextLowSlots \cap NextHighSlots = {}
    /\ Cardinality(NextLowSlots \cup NextHighSlots) = numlanes

\* the last partition_vec step of a call has a window of exactly numlanes, and
\* the boundary returned after vector steps is the final l_store
LastStepMeets ==
    /\ (AtVecStep /\ Pending = 1 /\ Unloaded = 0) => HighDestEnd - LowDest = numlanes
    /\ (Returned /\ nvec >= 2) => ret = l_store

\* C9 as stated: at every partition_vec call the window high_dest_end -
\* low_dest is numlanes times the number of vectors loaded and not yet stored,
\* and at least numlanes; the two writes tile numlanes slots; the last step's
\* window is exactly numlanes.
C9_AsStated ==
    /\ AtVecStep =>
          /\ HighDestEnd - LowDest = numlanes * Pending
          /\ HighDestEnd - LowDest >= numlanes
          /\ TilingWrites
    /\ LastStepMeets

\* C9 amended: at every partition_vec call the window high_dest_end - low_dest
\* is numlanes times the number of vectors loaded and not yet stored plus the
\* number of elements not yet loaded, and at least numlanes; the two writes
\* tile numlanes slots; the last step's window is exactly numlanes.
C9_Window ==
    /\ AtVecStep =>
          /\ HighDestEnd - LowDest = numlanes * Pending + Unloaded
          /\ HighDestEnd - LowDest >= numlanes
          /\ TilingWrites
    /\ LastStepMeets

\* a partition_vec step of the main loop with elements still to load
C9_Witness ==
    /\ AtLoopVecStep /\ Unloaded > 0 /\ Pending >= 3
    /\ 0 < NextCountGe /\ NextCountGe < numlanes

\* --------------------------------------------------------------- C10
\* after the remainder loop the remaining length is a multiple of numlanes
\* (of num_unroll * numlanes, and at least two batches, in the unrolled
\* routine, so its early return is not taken); in a main loop the load
\* cursors have not met and have not passed each other, and they have met
\* when the loop is left
C10_Aligned ==
    /\ (pc = "p_scalar" /\ i = 0) =>
          /\ right - left >= 0
          /\ (right - left) % numlanes = 0
    /\ (pc = "u_scalar" /\ i = 0) =>
          /\ (right - left) % (num_unroll * numlanes) = 0
          /\ right - left >= 2 * num_unroll * numlanes
          /\ left # right
    /\ pc \in {"p_loop", "p_loop_vec", "u_loop", "u_loop_vec"} => right - left >= 0
    /\ pc \in {"p_loop", "u_loop"} => right - left > 0
    /\ pc \in {"p_vec_left", "u_vec_left"} => left = right

\* an iteration of a main loop moves the load cursors together by exactly one
\* vector (one batch of num_unroll vectors in the unrolled routine)
C10_Shrinks ==
    /\ pc = "p_loop" => (right' - left') = (right - left) - numlanes
    /\ pc = "u_loop" => (right' - left') = (right - left) - num_unroll * numlanes

\* what is left to do: a natural number that every step lowers
PcRank ==
    CASE pc = "done" -> 0
      [] pc \in {"u_return", "p_single"} -> 1
      [] pc = "p_entry" -> 3 + numlanes
      [] pc = "u_entry" -> 4 + numlanes + num_unroll * numlanes
      [] OTHER -> 3

Rank ==
    2 * (right - left) + Pending + i + PcRank
        + (2 - phase) * (2 * (right0 - left0) + numlanes + 4)

\* both calls have returned
Finished == phase = 2 /\ Returned

\* the code has a next step: the call under way is at a statement whose loop
\* counter is in range, or the first call has returned and the second is due
CanStep ==
    \/ /\ pc \in {"u_entry", "p_entry", "p_scalar", "u_scalar", "p_single",
                   "p_loop", "p_loop_vec", "p_vec_left", "p_vec_right",
                   "u_loop", "u_loop_vec", "u_vec_left", "u_vec_right", "u_return"}
       /\ i >= 0
       /\ ii >= 0 /\ ii < num_unroll
    \/ phase = 1 /\ Returned

\* the rank is a natural number, and a call that has not returned can step
C10_Progress == Rank >= 0 /\ (~Finished => CanStep)

\* CanStep is exactly the enabling condition of Next
CanStepIsEnabled == CanStep <=> ENABLED Next

\* C10: every call terminates (each step lowers a natural-number rank and a
\* call that has not returned has a next step); after the remainder loop the
\* remaining length is aligned as above; each main-loop iteration shrinks the
\* distance between the load cursors by exactly numlanes (num_unroll *
\* numlanes) and the loop exits with left = right, never stepping past it.
C10_Termination ==
    /\ []C10_Aligned
    /\ []C10_Progress
    /\ [][C10_Shrinks /\ Rank' < Rank]_vars

\* the unrolled main loop is about to start a second batch
C10_Witness ==
    /\ pc = "u_loop" /\ num_unroll = 2
    /\ nvec >= num_unroll

====
